---------------------------- MODULE Spec2Model ----------------------------
(***************************************************************************)
(* Model of app.py: the startup provisioning loop that fills the agents    *)
(* map, the request block (upload -> classify -> extract -> cleanup of     *)
(* the temp file) and the pure function render_cards.                      *)
(*                                                                         *)
(* Strings that the program only builds and compares (file names, paths,   *)
(* type labels, agent names) are TLA+ strings.  Strings whose characters   *)
(* matter (field names, display strings) are sequences of one-character    *)
(* strings.                                                                *)
(***************************************************************************)
EXTENDS Naturals, Sequences, FiniteSets, TLC

VARIABLES
    \* ---- provisioning (process start) ----
    remote,         \* the remote service's agents: name -> schema bound, or NoSchema
    agents,         \* the module-level dict `agents` (a function on the keys present)
    ppc,            \* position in the provisioning loop
    idx,            \* index into agent_definitions of the current iteration
    pass,           \* number of the process start (1 = first ever start)
    plog,           \* calls made to the extractor client in this pass, in order
    \* ---- requests ----
    concurrent,     \* TRUE when the block may be run by several sessions at once
    pc,             \* request -> position in the request block
    uploaded_file,  \* request -> uploaded file name, or NoName
    fs,             \* the working directory: path -> file (inode, data) or NoFile
    fd,             \* request -> inode its open() returned
    log,            \* request -> calls and messages of the request, in order
    fault,          \* request -> the exception that aborted it, or "none"
    extract_result, \* request -> data returned by extract (a field list)
    cards,          \* request -> cards drawn by render_cards
    \* ---- render_cards, one step per loop iteration ----
    rdata,          \* the dict handed to render_cards
    ri,             \* number of fields already rendered
    rout            \* cards emitted so far

pvars == <<remote, agents, ppc, idx, pass, plog>>
qvars == <<concurrent, pc, uploaded_file, fs, fd, log, fault, extract_result, cards>>
rvars == <<rdata, ri, rout>>
vars == <<remote, agents, ppc, idx, pass, plog,
          concurrent, pc, uploaded_file, fs, fd, log, fault, extract_result, cards,
          rdata, ri, rout>>

-----------------------------------------------------------------------------
(* Bounds of the model *)

MaxRequests == 2
MaxPasses == 2
MaxTransient == 1
MaxList == 2


-----------------------------------------------------------------------------
(* Schema registry and agent provisioning: app.py lines 94-112 *)

\* The dict agent_definitions in insertion order (the order .items() yields).
agent_definitions ==
    << [name |-> "invoice-extractor",       schema |-> "Invoice"],
       [name |-> "receipt-extractor",       schema |-> "Receipt"],
       [name |-> "resume-extractor",        schema |-> "Resume"],
       [name |-> "aadhaar-extractor",       schema |-> "AadhaarCard"],
       [name |-> "pan-extractor",           schema |-> "PANCard"],
       [name |-> "bank-extractor",          schema |-> "BankStatement"],
       [name |-> "coverletter-extractor",   schema |-> "CoverLetter"],
       [name |-> "labreport-extractor",     schema |-> "LabReport"],
       [name |-> "prescription-extractor",  schema |-> "Prescription"],
       [name |-> "medicalrecord-extractor", schema |-> "MedicalRecord"] >>

NumDefs == Len(agent_definitions)
AgentNames == {agent_definitions[i].name : i \in 1..NumDefs}

NoSchema == "none"
\* Python's None where a handle is expected.
NoAgent == [name |-> "", schema |-> ""]
\* The handle the extractor client returns for a remote agent.
Handle(n, s) == [name |-> n, schema |-> s]

\* agents = {}
EmptyAgents == [n \in {} |-> NoAgent]
\* agents[k] = h
Assign(m, k, h) == [n \in (DOMAIN m) \cup {k} |-> IF n = k THEN h ELSE m[n]]

\* One call of the extractor client, as recorded in plog.
PCall(op, n, ok, existed) == [op |-> op, name |-> n, ok |-> ok, existed |-> existed]

Exists(n) == remote[n] # NoSchema
Transients == Cardinality({i \in 1..Len(plog) :
                  plog[i].op = "get_agent" /\ ~plog[i].ok /\ plog[i].existed})

\* for agent_name, schema in agent_definitions.items(): next iteration or loop end
Advance == /\ idx' = idx + 1
           /\ ppc' = IF idx + 1 > NumDefs THEN "done" ELSE "get"

\* line 110, no exception: agents[agent_name] = extractor.get_agent(agent_name)
GetAgentOk ==
    /\ ppc = "get"
    /\ LET d == agent_definitions[idx] IN
        /\ Exists(d.name)
        /\ agents' = Assign(agents, d.name, Handle(d.name, remote[d.name]))
        /\ plog' = Append(plog, PCall("get_agent", d.name, TRUE, TRUE))
    /\ Advance
    /\ UNCHANGED <<remote, pass>>
    /\ UNCHANGED qvars /\ UNCHANGED rvars

\* lines 110-111: get_agent raises (the agent is not there, or any transient
\* error while it is there); the bare except takes over.
GetAgentRaises ==
    /\ ppc = "get"
    /\ LET d == agent_definitions[idx] IN
        /\ ~Exists(d.name) \/ Transients < MaxTransient
        /\ plog' = Append(plog, PCall("get_agent", d.name, FALSE, Exists(d.name)))
    /\ ppc' = "create"
    /\ UNCHANGED <<remote, agents, idx, pass>>
    /\ UNCHANGED qvars /\ UNCHANGED rvars

\* Variant: the except block creates the agent but does not store the handle.
CreateAgentOk_NotStored ==
    /\ ppc = "create"
    /\ LET d == agent_definitions[idx] IN
        /\ remote' = [remote EXCEPT ![d.name] = d.schema]
        /\ plog' = Append(plog, PCall("create_agent", d.name, TRUE, Exists(d.name)))
    /\ Advance
    /\ UNCHANGED <<agents, pass>>
    /\ UNCHANGED qvars /\ UNCHANGED rvars

\* line 112, no exception: agents[agent_name] = extractor.create_agent(agent_name, schema)
CreateAgentOk ==
    /\ ppc = "create"
    /\ LET d == agent_definitions[idx] IN
        /\ remote' = [remote EXCEPT ![d.name] = d.schema]
        /\ agents' = Assign(agents, d.name, Handle(d.name, d.schema))
        /\ plog' = Append(plog, PCall("create_agent", d.name, TRUE, Exists(d.name)))
    /\ Advance
    /\ UNCHANGED pass
    /\ UNCHANGED qvars /\ UNCHANGED rvars

\* Variant: a failure of create_agent is swallowed and the loop goes on.
CreateAgentRaises_Swallowed ==
    /\ ppc = "create"
    /\ LET d == agent_definitions[idx] IN
        plog' = Append(plog, PCall("create_agent", d.name, FALSE, Exists(d.name)))
    /\ Advance
    /\ UNCHANGED <<remote, agents, pass>>
    /\ UNCHANGED qvars /\ UNCHANGED rvars

\* line 112: create_agent raises inside the except block; nothing catches it
\* and the script stops.
CreateAgentRaises ==
    /\ ppc = "create"
    /\ LET d == agent_definitions[idx] IN
        plog' = Append(plog, PCall("create_agent", d.name, FALSE, Exists(d.name)))
    /\ ppc' = "aborted"
    /\ UNCHANGED <<remote, agents, idx, pass>>
    /\ UNCHANGED qvars /\ UNCHANGED rvars

\* The process is started again: line 107 (agents = {}) and the loop from the top.
\* The remote service keeps the agents created so far.
Restart ==
    /\ ppc \in {"done", "aborted"}
    /\ pass < MaxPasses
    /\ pass' = pass + 1
    /\ agents' = EmptyAgents
    /\ idx' = 1
    /\ ppc' = "get"
    /\ plog' = <<>>
    /\ UNCHANGED remote
    /\ UNCHANGED qvars /\ UNCHANGED rvars

\* agent_definitions[n]
SchemaOf(n) == agent_definitions[CHOOSE i \in 1..NumDefs : agent_definitions[i].name = n].schema

\* The agents map once the loop has run to completion.
Provisioned == [n \in AgentNames |-> Handle(n, SchemaOf(n))]

ProvNext ==
    \/ GetAgentOk
    \/ GetAgentRaises
    \/ CreateAgentOk
    \/ CreateAgentRaises
    \/ Restart

-----------------------------------------------------------------------------
(* render_cards: app.py lines 127-139 *)

\* Python values of an extraction result.  A string is a sequence of
\* one-character strings.
PyStr(s) == [t |-> "str",  s |-> s,    n |-> 0, l |-> <<>>]
PyInt(n) == [t |-> "int",  s |-> <<>>, n |-> n, l |-> <<>>]
PyList(l) == [t |-> "list", s |-> <<>>, n |-> 0, l |-> l]

DigitChars == <<"0", "1", "2", "3", "4", "5", "6", "7", "8", "9">>

RECURSIVE Digits(_)
\* str(n) for an int n >= 0
Digits(n) == IF n < 10 THEN <<DigitChars[n + 1]>>
             ELSE Digits(n \div 10) \o <<DigitChars[(n % 10) + 1]>>

\* str(v)
Str(v) == IF v.t = "str" THEN v.s ELSE Digits(v.n)

\* The separator of line 132.
Br == <<"<", "b", "r", ">">>

RECURSIVE Join_Trailing(_, _)
\* Variant: the separator follows every element, the last one too.
Join_Trailing(sep, ss) == IF ss = <<>> THEN <<>>
                          ELSE ss[1] \o sep \o Join_Trailing(sep, Tail(ss))

RECURSIVE Join(_, _)
\* sep.join(ss) for a list ss of strings
Join(sep, ss) == IF ss = <<>> THEN <<>>
                 ELSE IF Len(ss) = 1 THEN ss[1]
                 ELSE ss[1] \o sep \o Join(sep, Tail(ss))

LowerChars == <<"a", "b", "c", "d", "e", "f", "g", "h", "i", "j", "k", "l", "m",
                "n", "o", "p", "q", "r", "s", "t", "u", "v", "w", "x", "y", "z">>
UpperChars == <<"A", "B", "C", "D", "E", "F", "G", "H", "I", "J", "K", "L", "M",
                "N", "O", "P", "Q", "R", "S", "T", "U", "V", "W", "X", "Y", "Z">>
IsLower(c) == \E i \in 1..26 : LowerChars[i] = c
IsUpper(c) == \E i \in 1..26 : UpperChars[i] = c
IsCased(c) == IsLower(c) \/ IsUpper(c)
ToUpper(c) == IF IsLower(c) THEN UpperChars[CHOOSE i \in 1..26 : LowerChars[i] = c] ELSE c
ToLower(c) == IF IsUpper(c) THEN LowerChars[CHOOSE i \in 1..26 : UpperChars[i] = c] ELSE c

\* key.replace('_', ' ')
ReplaceUnderscores(k) == [i \in 1..Len(k) |-> IF k[i] = "_" THEN " " ELSE k[i]]

\* s.title(): a cased character is upper-cased when it follows an uncased
\* character (or starts the string) and lower-cased otherwise.
TitleCase(s) == [i \in 1..Len(s) |->
                    IF i = 1 \/ ~IsCased(s[i - 1]) THEN ToUpper(s[i]) ELSE ToLower(s[i])]

\* One iteration of the loop of lines 130-138: the card drawn for one field.
Card(f) ==
    [title |-> TitleCase(ReplaceUnderscores(f.key)),
     value |-> IF f.value.t = "list"
               THEN PyStr(Join(Br, [i \in 1..Len(f.value.l) |-> Str(f.value.l[i])]))
               ELSE f.value]

\* render_cards(data): the cards in the order of data.items().  A dict is the
\* sequence of its (key, value) items in insertion order.
render_cards(data) == [i \in 1..Len(data) |-> Card(data[i])]

\* Inputs of render_cards
Elems == {PyStr(<<"a">>), PyStr(<<"b", "<", "c">>), PyInt(7), PyInt(120)}
RECURSIVE SeqsUpTo(_, _)
SeqsUpTo(S, n) == IF n = 0 THEN {<<>>}
                  ELSE LET P == SeqsUpTo(S, n - 1) IN
                       P \cup {Append(q, x) : q \in {y \in P : Len(y) = n - 1}, x \in S}
Values == {PyStr(<<"I", "N", "V", "-", "1">>), PyInt(250)}
              \cup {PyList(l) : l \in SeqsUpTo(Elems, MaxList)}
Keys == {<<"t", "o", "t", "a", "l">>, <<"i", "t", "e", "m", "_", "i", "D", "s">>}
Field(k, v) == [key |-> k, value |-> v]
Dicts == {<<>>} \cup {<<Field(k, v)>> : k \in Keys, v \in Values}
            \cup {<<Field(k1, v1), Field(k2, v2)>> :
                     <<k1, k2>> \in {kk \in Keys \X Keys : kk[1] # kk[2]},
                     <<v1, v2>> \in Values \X Values}

\* One iteration of the for loop of render_cards.
RenderField ==
    /\ ri < Len(rdata)
    /\ rout' = Append(rout, Card(rdata[ri + 1]))
    /\ ri' = ri + 1
    /\ UNCHANGED rdata
    /\ UNCHANGED pvars /\ UNCHANGED qvars

RenderNext == RenderField

-----------------------------------------------------------------------------
(* The request block: app.py lines 141-188 *)

Requests == 1..MaxRequests

\* Names a user may upload; two requests may carry the same name.
FileNames == {"invoice.pdf", "scan.docx"}
\* uploaded_file is None
NoName == ""

\* Variant: one fixed temp path for every upload.
temp_file_path_Fixed(name) == "temp_upload"

\* line 142: temp_file_path = f"temp_{uploaded_file.name}"
temp_file_path(name) == "temp_" \o name
Paths == {temp_file_path(n) : n \in FileNames}
PathOf(r) == temp_file_path(uploaded_file[r])

\* A file of the working directory: the inode behind the path (named after
\* the request whose open() created it) and its bytes (0: truncated, r: the
\* buffer uploaded with request r).
NoFile == [ino |-> 0, data |-> 0]
File(i, d) == [ino |-> i, data |-> d]

\* lines 147-154: the type labels of the classification rules
rules == <<"invoice", "receipt", "resume", "aadhaar", "pan", "bank">>
RuleTypes == {rules[i] : i \in 1..Len(rules)}
\* Labels the classification service answers with here: the first and the
\* last rule's label, and a label no agent is registered for.
ResultTypes == {rules[1], rules[Len(rules)], "payslip"}

\* Variant: the key ignores the classified type.
agent_key_Fixed(doc_type) == "invoice-extractor"

\* line 178: agent_key = f"{doc_type}-extractor"
agent_key(doc_type) == doc_type \o "-extractor"

\* Variant: a missing key falls back to the first agent.
AgentsGet_Default(k) == IF k \in DOMAIN agents THEN agents[k] ELSE agents["invoice-extractor"]

\* line 179: agents.get(agent_key)
AgentsGet(k) == IF k \in DOMAIN agents THEN agents[k] ELSE NoAgent
\* line 181: if extract_agent
Truthy(h) == h # NoAgent

\* Data the extraction service may answer with.
ExtractData ==
    { <<Field(<<"t", "o", "t", "a", "l">>, PyInt(250))>>,
      <<Field(<<"i", "d">>, PyStr(<<"7">>)),
        Field(<<"i", "t", "e", "m", "s">>, PyList(<<PyStr(<<"a">>), PyInt(7)>>))>> }

\* One call or message of a request, as recorded in log.
Ev(op, arg, paths, handle) == [op |-> op, arg |-> arg, paths |-> paths, handle |-> handle]
Logged(r, evs) == log' = [log EXCEPT ![r] = log[r] \o evs]

Ended(r) == pc[r] \in {"Done", "Aborted"}
\* The block runs for one request at a time unless sessions run concurrently.
Admitted(r) == concurrent \/ \A q \in Requests \ {r} : pc[q] = "Idle" \/ Ended(q)

\* lines 141-143: a file is uploaded; open(temp_file_path, "wb") creates the
\* file or truncates the one already at that path.
Upload(r, name) ==
    /\ pc[r] = "Idle"
    /\ Admitted(r)
    /\ uploaded_file' = [uploaded_file EXCEPT ![r] = name]
    /\ LET p == temp_file_path(name)
           f == IF fs[p] = NoFile THEN File(r, 0) ELSE File(fs[p].ino, 0)
       IN /\ fs' = [fs EXCEPT ![p] = f]
          /\ fd' = [fd EXCEPT ![r] = f.ino]
          /\ Logged(r, <<Ev("open", "wb", <<p>>, NoAgent)>>)
    /\ pc' = [pc EXCEPT ![r] = "Opened"]
    /\ UNCHANGED <<concurrent, fault, extract_result, cards>>
    /\ UNCHANGED pvars /\ UNCHANGED rvars

\* line 144: f.write(uploaded_file.getbuffer()) and the close of the with
\* block.  The bytes go to the inode that was opened; they show at the path
\* only while the path still names that inode.
WriteTemp(r) ==
    /\ pc[r] = "Opened"
    /\ LET p == PathOf(r) IN
        /\ fs' = IF fs[p].ino = fd[r] THEN [fs EXCEPT ![p] = File(fd[r], r)] ELSE fs
        /\ Logged(r, <<Ev("write", "", <<p>>, NoAgent)>>)
    /\ pc' = [pc EXCEPT ![r] = "FileReceived"]
    /\ UNCHANGED <<concurrent, uploaded_file, fd, fault, extract_result, cards>>
    /\ UNCHANGED pvars /\ UNCHANGED rvars

\* lines 146-161: classify_client.classify_file_paths(rules, [temp_file_path], parsing)
\* is invoked; the call is in flight until it returns or raises.
ClassifyCall(r) ==
    /\ pc[r] = "FileReceived"
    /\ Logged(r, <<Ev("info", "Classifying", <<>>, NoAgent),
                   Ev("classify", "", <<PathOf(r)>>, NoAgent)>>)
    /\ pc' = [pc EXCEPT ![r] = "Classifying"]
    /\ UNCHANGED <<concurrent, uploaded_file, fs, fd, fault, extract_result, cards>>
    /\ UNCHANGED pvars /\ UNCHANGED rvars

\* Variant: the null result ends the run at once, before line 188.
ClassifyReturnsNull_Return(r) ==
    /\ pc[r] = "Classifying"
    /\ Logged(r, <<Ev("result", "None", <<>>, NoAgent),
                   Ev("error", "Classification failed", <<>>, NoAgent)>>)
    /\ pc' = [pc EXCEPT ![r] = "Done"]
    /\ UNCHANGED <<concurrent, uploaded_file, fs, fd, fault, extract_result, cards>>
    /\ UNCHANGED pvars /\ UNCHANGED rvars

\* lines 163-165: results.items[0].result is None
ClassifyReturnsNull(r) ==
    /\ pc[r] = "Classifying"
    /\ Logged(r, <<Ev("result", "None", <<>>, NoAgent),
                   Ev("error", "Classification failed", <<>>, NoAgent)>>)
    /\ pc' = [pc EXCEPT ![r] = "Cleanup"]
    /\ UNCHANGED <<concurrent, uploaded_file, fs, fd, fault, extract_result, cards>>
    /\ UNCHANGED pvars /\ UNCHANGED rvars

\* lines 163-182 and 185-186: the result has type doc_type; the card is
\* shown, the agent is looked up, and either extract is invoked on it or the
\* warning is shown.
ClassifyReturnsType(r, doc_type) ==
    /\ pc[r] = "Classifying"
    /\ LET extract_agent == AgentsGet(agent_key(doc_type))
           shown == <<Ev("result", doc_type, <<>>, NoAgent),
                      Ev("classified", doc_type, <<>>, NoAgent),
                      Ev("info", "Extracting", <<>>, NoAgent)>>
       IN IF Truthy(extract_agent)
          THEN /\ Logged(r, shown \o <<Ev("extract", doc_type, <<PathOf(r)>>, extract_agent)>>)
               /\ pc' = [pc EXCEPT ![r] = "Extracting"]
          ELSE /\ Logged(r, shown \o <<Ev("warning", doc_type, <<>>, NoAgent)>>)
               /\ pc' = [pc EXCEPT ![r] = "Cleanup"]
    /\ UNCHANGED <<concurrent, uploaded_file, fs, fd, fault, extract_result, cards>>
    /\ UNCHANGED pvars /\ UNCHANGED rvars

\* Variant: the temp file is removed on the way out (try/finally).
ClassifyRaises_Finally(r) ==
    /\ pc[r] = "Classifying"
    /\ fault' = [fault EXCEPT ![r] = "classify"]
    /\ fs' = [fs EXCEPT ![PathOf(r)] = NoFile]
    /\ pc' = [pc EXCEPT ![r] = "Aborted"]
    /\ UNCHANGED <<concurrent, uploaded_file, fd, log, extract_result, cards>>
    /\ UNCHANGED pvars /\ UNCHANGED rvars

\* line 157: the classify call raises; nothing catches it and the run stops.
ClassifyRaises(r) ==
    /\ pc[r] = "Classifying"
    /\ fault' = [fault EXCEPT ![r] = "classify"]
    /\ pc' = [pc EXCEPT ![r] = "Aborted"]
    /\ UNCHANGED <<concurrent, uploaded_file, fs, fd, log, extract_result, cards>>
    /\ UNCHANGED pvars /\ UNCHANGED rvars

\* lines 182-184: extract returns; the heading and the cards are drawn.
ExtractReturns(r, data) ==
    /\ pc[r] = "Extracting"
    /\ extract_result' = [extract_result EXCEPT ![r] = data]
    /\ cards' = [cards EXCEPT ![r] = render_cards(data)]
    /\ Logged(r, <<Ev("render", "", <<>>, NoAgent)>>)
    /\ pc' = [pc EXCEPT ![r] = "Cleanup"]
    /\ UNCHANGED <<concurrent, uploaded_file, fs, fd, fault>>
    /\ UNCHANGED pvars /\ UNCHANGED rvars

\* line 182: the extract call raises; nothing catches it and the run stops.
ExtractRaises(r) ==
    /\ pc[r] = "Extracting"
    /\ fault' = [fault EXCEPT ![r] = "extract"]
    /\ pc' = [pc EXCEPT ![r] = "Aborted"]
    /\ UNCHANGED <<concurrent, uploaded_file, fs, fd, log, extract_result, cards>>
    /\ UNCHANGED pvars /\ UNCHANGED rvars

\* Variant: the last line reports the removal without unlinking the path.
Remove_Skipped(r) ==
    /\ pc[r] = "Cleanup"
    /\ Logged(r, <<Ev("remove", "ok", <<PathOf(r)>>, NoAgent)>>)
    /\ pc' = [pc EXCEPT ![r] = "Done"]
    /\ UNCHANGED <<concurrent, uploaded_file, fs, fd, fault, extract_result, cards>>
    /\ UNCHANGED pvars /\ UNCHANGED rvars

\* line 188: os.remove(temp_file_path) unlinks the path, or raises
\* FileNotFoundError when nothing is there.
Remove(r) ==
    /\ pc[r] = "Cleanup"
    /\ LET p == PathOf(r) IN
        IF fs[p] # NoFile
        THEN /\ fs' = [fs EXCEPT ![p] = NoFile]
             /\ Logged(r, <<Ev("remove", "ok", <<p>>, NoAgent)>>)
             /\ pc' = [pc EXCEPT ![r] = "Done"]
             /\ UNCHANGED fault
        ELSE /\ Logged(r, <<Ev("remove", "FileNotFoundError", <<p>>, NoAgent)>>)
             /\ fault' = [fault EXCEPT ![r] = "FileNotFoundError"]
             /\ pc' = [pc EXCEPT ![r] = "Aborted"]
             /\ UNCHANGED fs
    /\ UNCHANGED <<concurrent, uploaded_file, fd, extract_result, cards>>
    /\ UNCHANGED pvars /\ UNCHANGED rvars

\* The steps of request r after the upload.
Step(r) ==
    \/ WriteTemp(r)
    \/ ClassifyCall(r)
    \/ ClassifyReturnsNull(r)
    \/ \E t \in ResultTypes : ClassifyReturnsType(r, t)
    \/ ClassifyRaises(r)
    \/ \E d \in ExtractData : ExtractReturns(r, d)
    \/ ExtractRaises(r)
    \/ Remove(r)

Next ==
    \/ \E r \in Requests, name \in FileNames : Upload(r, name)
    \/ \E r \in Requests : WriteTemp(r)
    \/ \E r \in Requests : ClassifyCall(r)
    \/ \E r \in Requests : ClassifyReturnsNull(r)
    \/ \E r \in Requests, t \in ResultTypes : ClassifyReturnsType(r, t)
    \/ \E r \in Requests : ClassifyRaises(r)
    \/ \E r \in Requests, d \in ExtractData : ExtractReturns(r, d)
    \/ \E r \in Requests : ExtractRaises(r)
    \/ \E r \in Requests : Remove(r)

-----------------------------------------------------------------------------
(* Initial states and specifications *)

RequestsIdle ==
    /\ pc = [r \in Requests |-> "Idle"]
    /\ uploaded_file = [r \in Requests |-> NoName]
    /\ fs = [p \in Paths |-> NoFile]
    /\ fd = [r \in Requests |-> 0]
    /\ log = [r \in Requests |-> <<>>]
    /\ fault = [r \in Requests |-> "none"]
    /\ extract_result = [r \in Requests |-> <<>>]
    /\ cards = [r \in Requests |-> <<>>]

RenderIdle == rdata = <<>> /\ ri = 0 /\ rout = <<>>

\* The calls of a first start against a service that holds no agent yet.
FirstPassLog ==
    [i \in 1..(2 * NumDefs) |->
        IF i % 2 = 1 THEN PCall("get_agent", agent_definitions[(i + 1) \div 2].name, FALSE, FALSE)
        ELSE PCall("create_agent", agent_definitions[i \div 2].name, TRUE, FALSE)]

\* The process after lines 94-112 have run to completion.
Started ==
    /\ remote = [n \in AgentNames |-> SchemaOf(n)]
    /\ agents = Provisioned
    /\ ppc = "done"
    /\ idx = NumDefs + 1
    /\ pass = 1
    /\ plog = FirstPassLog

\* Requests served one at a time.
Init == Started /\ concurrent = FALSE /\ RequestsIdle /\ RenderIdle
Spec == Init /\ [][Next]_vars

\* Each request that has started keeps running: the script is sequential
\* and a call in flight returns or raises.
FairSpec == Spec /\ \A r \in Requests : WF_vars(Step(r))

\* Requests served one at a time, or by concurrent sessions.
ConcInit == Started /\ concurrent \in BOOLEAN /\ RequestsIdle /\ RenderIdle
ConcSpec == ConcInit /\ [][Next]_vars

\* The first start of the process, against a service that holds no agent.
ProvInit ==
    /\ remote = [n \in AgentNames |-> NoSchema]
    /\ agents = EmptyAgents
    /\ ppc = "get"
    /\ idx = 1
    /\ pass = 1
    /\ plog = <<>>
    /\ concurrent = FALSE /\ RequestsIdle /\ RenderIdle
ProvSpec == ProvInit /\ [][ProvNext]_vars

\* render_cards applied to each input.
RenderInit ==
    /\ Started /\ concurrent = FALSE /\ RequestsIdle
    /\ rdata \in Dicts /\ ri = 0 /\ rout = <<>>
RenderSpec == RenderInit /\ [][RenderNext]_vars

-----------------------------------------------------------------------------
(* Reading the logs *)

At(r, op) == {i \in 1..Len(log[r]) : log[r][i].op = op}
Count(r, op) == Cardinality(At(r, op))
Has(r, op) == At(r, op) # {}
NullResult(r) == \E i \in At(r, "result") : log[r][i].arg = "None"
TypeResult(r, t) == \E i \in At(r, "result") : log[r][i].arg = t
RemoteFault(r) == fault[r] \in {"classify", "extract"}
\* The step in which request r ends.
Ends(r) == ~Ended(r) /\ Ended(r)'
\* A file holding the bytes written for request r is in the directory.
Holds(r) == \E p \in Paths : fs[p] # NoFile /\ fs[p].data = r

PAt(op, n) == {i \in 1..Len(plog) : plog[i].op = op /\ plog[i].name = n}
NamesBefore(k) == {agent_definitions[i].name : i \in 1..(k - 1)}

-----------------------------------------------------------------------------
(* C1 *)

C1_Cases(r) ==
    NullResult(r) =>
        /\ ~Has(r, "extract")
        /\ Count(r, "error") = 1
        /\ Ended(r) => ~Holds(r) /\ Count(r, "remove") = 1

C1_AtEnd(r) == (NullResult(r) /\ Ends(r)) => fs'[PathOf(r)] = NoFile

\* C1: when the first classification item has a null result, extract is
\* never invoked in that request, the error message is shown, and when the
\* request ends the temp file is not there (nothing is at its path in the
\* state the request ends in, and no file holds its bytes afterwards).
C1_NullResult ==
    /\ [](\A r \in Requests : C1_Cases(r))
    /\ [][\A r \in Requests : C1_AtEnd(r)]_vars

C1_Witness == \E r \in Requests : NullResult(r) /\ pc[r] = "Done"

-----------------------------------------------------------------------------
(* C2 *)

Unregistered(t) == agent_key(t) \notin DOMAIN agents

C2_Cases(r, t) ==
    (TypeResult(r, t) /\ Unregistered(t)) =>
        /\ \E i \in At(r, "warning") : log[r][i].arg = t
        /\ ~Has(r, "extract")
        /\ fault[r] = "none" /\ pc[r] # "Aborted"
        /\ Ended(r) => ~Holds(r) /\ fs[PathOf(r)].ino # r /\ Count(r, "remove") = 1

\* C2: with requests served one at a time, when classification returns a
\* type T that has no entry "T-extractor" in agents, a warning naming T is
\* shown, extract is never invoked, the request does not fault, and its temp
\* file is gone once it has ended.
C2_NoAgent == \A r \in Requests, t \in ResultTypes : C2_Cases(r, t)

C2_Witness == \E r \in Requests : TypeResult(r, "payslip") /\ pc[r] = "Done"

-----------------------------------------------------------------------------
(* C3 *)

\* C3: when the provisioning loop has run to completion, agents holds one
\* handle for every name of agent_definitions, bound to that name and its
\* schema, and no other key.
C3_AllProvisioned ==
    ppc = "done" =>
        /\ DOMAIN agents = AgentNames
        /\ \A n \in AgentNames : agents[n] = Handle(n, SchemaOf(n))
        /\ agents = Provisioned

C3_Witness ==
    /\ ppc = "done"
    /\ \E i, j \in 1..Len(plog) :
         /\ plog[i].op = "get_agent" /\ plog[i].ok
         /\ plog[j].op = "get_agent" /\ ~plog[j].ok /\ plog[j].existed
    /\ \E i \in 1..Len(plog) : plog[i].op = "get_agent" /\ ~plog[i].existed

-----------------------------------------------------------------------------
(* C4 *)

\* C4: provisioning is idempotent per name: when the remote agent exists at
\* the time of the fetch, the fetch succeeds and create_agent is not invoked
\* for that name; create_agent is invoked only after a failed fetch.
C4_Idempotent ==
    \A i \in 1..Len(plog) :
        /\ (plog[i].op = "get_agent" /\ plog[i].existed) => plog[i].ok
        /\ plog[i].op = "create_agent" =>
              /\ ~plog[i].existed
              /\ i > 1 /\ plog[i - 1] = PCall("get_agent", plog[i].name, FALSE, FALSE)

-----------------------------------------------------------------------------
(* C8 *)

C8_FetchFirst ==
    \A i \in 1..Len(plog) :
        plog[i].op = "create_agent" =>
            i > 1 /\ plog[i - 1].op = "get_agent" /\ plog[i - 1].name = plog[i].name
                  /\ ~plog[i - 1].ok

C8_CreateOnce ==
    /\ \A i \in 1..Len(plog) :
        (plog[i].op = "get_agent" /\ ~plog[i].ok) =>
            IF i = Len(plog) THEN ppc = "create" /\ agent_definitions[idx].name = plog[i].name
            ELSE plog[i + 1].op = "create_agent" /\ plog[i + 1].name = plog[i].name
    /\ \A n \in AgentNames :
        /\ Cardinality(PAt("get_agent", n)) <= 1
        /\ Cardinality(PAt("create_agent", n)) <= 1
        /\ (remote[n] # NoSchema) => remote[n] = SchemaOf(n)

C8_CreateFailureStops ==
    /\ \A i \in 1..Len(plog) :
        (plog[i].op = "create_agent" /\ ~plog[i].ok) =>
            /\ i = Len(plog) /\ ppc = "aborted"
            /\ agent_definitions[idx].name = plog[i].name
    /\ ppc = "aborted" =>
        /\ plog # <<>> /\ plog[Len(plog)].op = "create_agent" /\ ~plog[Len(plog)].ok
        /\ DOMAIN agents = NamesBefore(idx)

\* C8: for every name the fetch comes first; any failed fetch, whether the
\* agent is missing or not, is followed by exactly one create_agent for that
\* name with its schema and no further attempt; a failed create_agent is the
\* last call of the start and leaves the names from that one on unprovisioned.
C8_FetchThenCreate ==
    /\ [](C8_FetchFirst /\ C8_CreateOnce /\ C8_CreateFailureStops)
    /\ [][ppc = "aborted" => (agents' = agents /\ plog' = plog) \/ pass' = pass + 1]_vars

C8_Witness ==
    /\ ppc = "aborted" /\ idx < NumDefs
    /\ \E i \in 1..Len(plog) : plog[i].op = "get_agent" /\ ~plog[i].ok /\ plog[i].existed
    /\ \E i \in 1..Len(plog) : plog[i].op = "get_agent" /\ ~plog[i].ok /\ ~plog[i].existed

-----------------------------------------------------------------------------
(* C9 *)

C9_Classify(r) ==
    /\ Count(r, "classify") = (IF pc[r] \in {"Idle", "Opened", "FileReceived"} THEN 0 ELSE 1)
    /\ \A i \in At(r, "classify") : log[r][i].paths = <<temp_file_path(uploaded_file[r])>>

C9_Extract(r) ==
    /\ Count(r, "extract") <= 1
    /\ \A i \in At(r, "extract") :
        /\ \E j \in At(r, "classify") : j < i
        /\ \E j \in At(r, "result") :
             /\ j < i /\ log[r][j].arg \in ResultTypes /\ log[r][j].arg = log[r][i].arg
             /\ (log[r][j].arg \o "-extractor") \in DOMAIN agents
             /\ log[r][i].handle = agents[log[r][j].arg \o "-extractor"]
        /\ log[r][i].handle.name = log[r][i].arg \o "-extractor"
        /\ log[r][i].paths = <<temp_file_path(uploaded_file[r])>>
    /\ Count(r, "result") <= 1

\* C9: in a request classify is invoked exactly once, on the one temp path
\* of the request; extract is invoked at most once, only after classify
\* returned a type T, on the handle stored under "T-extractor" and on the
\* same path; and the agents map is never changed by a request.
C9_CallOrder ==
    /\ [](\A r \in Requests : C9_Classify(r) /\ C9_Extract(r))
    /\ [][agents' = agents]_vars

C9_Witness == \E r \in Requests : Has(r, "extract") /\ pc[r] = "Done"

-----------------------------------------------------------------------------
(* C5 *)

InCall(r) == pc[r] \in {"Classifying", "Extracting"}
LastOp(r) == log[r][Len(log[r])]

C5_Lifetime(r) ==
    \* nothing of the request is on disk before it starts
    /\ pc[r] = "Idle" => ~Holds(r)
    \* created and written before the classify call
    /\ \A i \in At(r, "classify") :
          (\E j \in At(r, "open") : j < i) /\ (\E j \in At(r, "write") : j < i)
    \* there throughout the classify and the extract call
    /\ InCall(r) => fs[PathOf(r)] # NoFile /\ fs[PathOf(r)].data = r
    \* without a remote fault the request does not abort
    /\ pc[r] = "Aborted" => RemoteFault(r)
    \* deleted exactly once, as the last step, on each of the three paths
    /\ Has(r, "remove") => pc[r] = "Done"
    /\ pc[r] = "Done" =>
          /\ Count(r, "remove") = 1
          /\ LastOp(r) = Ev("remove", "ok", <<PathOf(r)>>, NoAgent)
          /\ log[r][Len(log[r]) - 1].op \in {"error", "warning", "render"}
          /\ ~Holds(r) /\ fs[PathOf(r)].ino # r

C5_Deleted(r) == (Ends(r) /\ pc'[r] = "Done") => fs'[PathOf(r)] = NoFile

\* C5: with requests served one at a time, the temp file is created before
\* the classify call, is there with the request's bytes throughout the
\* classify and extract calls, and every started request ends; it ends
\* aborted only if a remote call raised, and otherwise with the file deleted
\* exactly once, by its last step, after the error, the warning or the cards.
C5_TempFileLifetime ==
    /\ [](\A r \in Requests : C5_Lifetime(r))
    /\ [][\A r \in Requests : C5_Deleted(r)]_vars
    /\ \A r \in Requests : (pc[r] = "Opened") ~> (pc[r] = "Done" \/ RemoteFault(r))

C5_Witness ==
    \E r, q \in Requests :
        /\ pc[r] = "Done" /\ Has(r, "render")
        /\ pc[q] = "Done" /\ Has(q, "warning")
        /\ uploaded_file[r] = uploaded_file[q]

-----------------------------------------------------------------------------
(* C6 *)

RECURSIVE NumDigits(_)
NumDigits(n) == IF n < 10 THEN 1 ELSE 1 + NumDigits(n \div 10)
RECURSIVE DecimalValue(_)
DecimalValue(cs) ==
    IF cs = <<>> THEN 0
    ELSE 10 * DecimalValue(SubSeq(cs, 1, Len(cs) - 1))
         + ((CHOOSE d \in 1..10 : DigitChars[d] = cs[Len(cs)]) - 1)

\* Length of the text of element x, and whether the characters cs are it.
TextLen(x) == IF x.t = "str" THEN Len(x.s) ELSE NumDigits(x.n)
IsTextOf(cs, x) ==
    IF x.t = "str" THEN cs = x.s
    ELSE /\ Len(cs) = NumDigits(x.n)
         /\ \A i \in 1..Len(cs) : \E d \in 1..10 : DigitChars[d] = cs[i]
         /\ DecimalValue(cs) = x.n

RECURSIVE Offset(_, _)
\* Number of characters in front of the k-th element's text.
Offset(xs, k) == IF k = 1 THEN 0 ELSE Offset(xs, k - 1) + TextLen(xs[k - 1]) + 4

\* j is the elements' texts in order with "<br>" between consecutive ones.
IsJoined(j, xs) ==
    LET n == Len(xs) IN
    /\ Len(j) = IF n = 0 THEN 0 ELSE Offset(xs, n) + TextLen(xs[n])
    /\ \A k \in 1..n :
          IsTextOf(SubSeq(j, Offset(xs, k) + 1, Offset(xs, k) + TextLen(xs[k])), xs[k])
    /\ \A k \in 2..n :
          SubSeq(j, Offset(xs, k) - 3, Offset(xs, k)) = <<"<", "b", "r", ">">>

\* The card's title is the field's key up to case and "_" against " ".
TitleOfKey(title, key) ==
    /\ Len(title) = Len(key)
    /\ \A i \in 1..Len(key) :
          IF key[i] = "_" THEN title[i] = " " ELSE ToLower(title[i]) = ToLower(key[i])

\* C6: render_cards emits one card per field in the order of the data's
\* keys; a list-valued field is shown as one string, its elements' texts in
\* their order with "<br>" between consecutive elements (empty for an empty
\* list, no separator for one element); any other value is passed unchanged.
C6_RenderCards ==
    /\ Len(rout) = ri /\ ri <= Len(rdata)
    /\ \A i \in 1..ri :
        /\ TitleOfKey(rout[i].title, rdata[i].key)
        /\ IF rdata[i].value.t = "list"
           THEN rout[i].value.t = "str" /\ IsJoined(rout[i].value.s, rdata[i].value.l)
           ELSE rout[i].value = rdata[i].value
    /\ ri = Len(rdata) => rout = render_cards(rdata)

C6_Witness ==
    /\ ri = 2 /\ Len(rdata) = 2
    /\ rdata[1].value.t = "list" /\ Len(rdata[1].value.l) = 2
    /\ rdata[1].value.l[1].t = "int" /\ rdata[1].value.l[2].t = "str"
    /\ rdata[2].value.t = "int"

-----------------------------------------------------------------------------
(* C7 *)

C7_NoCleanup(r) ==
    RemoteFault(r) => pc[r] = "Aborted" /\ ~Has(r, "remove")

C7_Steps(r) ==
    \* the aborting step leaves the directory as it is
    /\ (~RemoteFault(r) /\ RemoteFault(r)') => fs' = fs /\ pc'[r] = "Aborted"
    \* an ended request takes no further step
    /\ Ended(r) => pc'[r] = pc[r] /\ log'[r] = log[r] /\ fault'[r] = fault[r]

\* C7: when the classify or the extract call raises, the request aborts in
\* that step without touching the directory and without ever calling
\* os.remove, and takes no step afterwards: its temp file stays where it is.
C7_FaultLeaksTempFile ==
    /\ [](\A r \in Requests : C7_NoCleanup(r))
    /\ [][\A r \in Requests : C7_Steps(r)]_vars

C7_Witness ==
    /\ \A r \in Requests : Ended(r)
    /\ \E r, q \in Requests :
        /\ fault[r] = "classify" /\ fs[PathOf(r)] = File(r, r)
        /\ fault[q] = "extract" /\ fs[PathOf(q)] = File(q, q)

-----------------------------------------------------------------------------
(* C10 *)

\* Request r still needs its file for the classify or extract call.
InUse(r) == pc[r] \in {"FileReceived", "Classifying", "Extracting"}
\* The file request r needs was deleted or overwritten under it.
Disturbed(r) == InUse(r) /\ (fs[PathOf(r)] = NoFile \/ fs[PathOf(r)].data # r)
\* The deletion of request r found no file.
MissedDelete(r) == fault[r] = "FileNotFoundError"
Collision(r) == Disturbed(r) \/ MissedDelete(r)

\* C10: a request finds its file deleted or overwritten while it still
\* needs it, or finds no file to delete, only when sessions run concurrently
\* and another request was uploaded with the same file name.
C10_CollisionOnlyOnSharedName ==
    \A r \in Requests :
        Collision(r) =>
            /\ concurrent
            /\ \E q \in Requests \ {r} : uploaded_file[q] = uploaded_file[r]

C10_Witness ==
    \E r, q \in Requests :
        /\ r # q /\ uploaded_file[r] = uploaded_file[q]
        /\ pc[r] = "Extracting" /\ fs[PathOf(r)] = NoFile
        /\ pc[q] = "Done"

\* Further states of C10: the overwrite, and the deletion that finds no file.
C10_Overwritten ==
    \E r \in Requests : pc[r] = "Classifying" /\ fs[PathOf(r)] # NoFile /\ fs[PathOf(r)].data # r
C10_SecondDeleteFails == \E r \in Requests : MissedDelete(r)

=============================================================================
